---- MODULE Spec2Model ----
(***************************************************************************)
(* RunUpdater: a file watcher (FSNotifyWatcher) feeding a single           *)
(* processing loop (RunUpdater.Start) that reads two tables from the       *)
(* changed file (ExcelReader.ReadSheet) and replaces two destination       *)
(* tables (GoogleSheetsClient.UpdateSheet), under a cancellable context.   *)
(***************************************************************************)
EXTENDS Naturals, Sequences, FiniteSets

(***************************************************************************)
(* Bounds of the model.                                                    *)
(***************************************************************************)
\* filesystem events the OS delivers during one run
MaxEvents == 2
\* errors pending on a handle's Errors stream
MaxErrors == 1
\* goroutine / watch-handle identities available to the run
MaxProcs == 2
\* calls of Start and Stop made out of the order of main
MaxCalls == 3

ProcIds == 1..MaxProcs

(***************************************************************************)
(* Paths.  A path is the sequence of its components; filepath.Clean,       *)
(* filepath.Base and filepath.Dir are computed on that sequence.           *)
(***************************************************************************)
RECURSIVE CleanAcc(_, _)
CleanAcc(rest, acc) ==
    IF rest = <<>> THEN acc
    ELSE LET c == Head(rest) IN
         IF c = "." THEN CleanAcc(Tail(rest), acc)
         ELSE IF c = ".." /\ acc # <<>> /\ acc[Len(acc)] # ".."
              THEN CleanAcc(Tail(rest), SubSeq(acc, 1, Len(acc) - 1))
              ELSE CleanAcc(Tail(rest), Append(acc, c))

\* filepath.Clean
Clean(p) == CleanAcc(p, <<>>)

\* filepath.Base
Base(p) == LET c == Clean(p) IN IF c = <<>> THEN "." ELSE c[Len(c)]

\* filepath.Dir
Dir(p) == Clean(SubSeq(p, 1, Len(p) - 1))

\* filepath.Join, as the watch backend builds an event's name
Join(d, f) == Clean(Append(d, f))

\* config.LiveSplitExportPath, as the operator wrote it (not normalized)
LiveSplitExportPath == <<"d", ".", "Export.xlsx">>

\* dir := filepath.Dir(fw.filePath)
WatchDir == Dir(LiveSplitExportPath)

\* filename := filepath.Base(fw.filePath)
filename == Base(LiveSplitExportPath)

(***************************************************************************)
(* Filesystem events: fsnotify.Event{Name, Op}; Op is a bit mask.          *)
(***************************************************************************)
OpCreate == 1
OpWrite == 2
OpRemove == 4
OpChmod == 16

\* event.Op&bit == bit
HasOp(op, bit) == (op \div bit) % 2 = 1

\* the events the watch backend may deliver
FsEvents ==
    { [name |-> Join(WatchDir, "Export.xlsx"), op |-> OpCreate + OpChmod],
      [name |-> Join(WatchDir, "Export.xlsx"), op |-> OpRemove],
      [name |-> Join(WatchDir, "other.xlsx"), op |-> OpWrite],
      [name |-> <<"e", "Export.xlsx">>, op |-> OpWrite] }

(***************************************************************************)
(* Tables.  A RowSet is a sequence of rows of string cells.                *)
(***************************************************************************)
RowsA == << <<"x", "1">>, <<"y", "2">> >>
RowsB == << <<"z", "3">> >>
RowsOld == << <<"old">> >>
NoRows == << >>

\* what ReadSheet may return for a table
RowSets == {RowsA, RowsB}

Tables == {1, 2}

VARIABLES
    hpc,          \* position of the host thread (main / Execute)
    service,      \* gsc.service # nil
    ctxDone,      \* the context is cancelled
    isRunning,    \* fw.isRunning
    doneClosed,   \* fw.done is closed
    eventsClosed, \* fw.events is closed
    fwWatcher,    \* fw.watcher: identity of the current watch handle, 0 = nil
    handle,       \* per watch handle: "none", "open", "closed"
    evq,          \* per watch handle: events pending on watcher.Events
    errq,         \* per watch handle: errors pending on watcher.Errors
    wg,           \* per reception goroutine: [pc, ev, h]
    loop,         \* per processing-loop goroutine: [pc, tbl, path, data1, data2]
    dest,         \* destination tables: table -> RowSet
    nEvents,      \* events delivered so far
    \* history
    received,     \* events the reception goroutine received, in order
    emitted,      \* names delivered on fw.events, in order
    attempts,     \* arguments of the processFileChange calls, in order
    oplog,        \* calls made for the notification started last
    results,      \* outcome of each processFileChange call that returned
    destBefore,   \* dest when the notification started last began
    stopReturned, \* FSNotifyWatcher.Stop has returned
    panicked,     \* the process died of a runtime panic (close of a closed channel,
                  \* send on a closed channel)
    lastCall,     \* the last call on the watcher that returned nil: "start", "stop"
    stopCalls,    \* calls of FSNotifyWatcher.Stop so far
    svcState,     \* the status the service handler reported last
    lastCmd,      \* the control command the service handler handled last
    apiCalls,     \* calls of a caller that does not keep to the order of main
    handleFailed, \* a watch handle closed without Stop or cancellation
    errSeen       \* an error of the watch backend was logged

vars == << hpc, service, ctxDone, isRunning, doneClosed, eventsClosed, fwWatcher,
           handle, evq, errq, wg, loop, dest, nEvents,
           received, emitted, attempts, oplog, results, destBefore, stopReturned,
           panicked, lastCall, stopCalls, svcState, lastCmd, apiCalls, handleFailed, errSeen >>

fwAux == << panicked, lastCall, stopCalls >>
hostAux == << svcState, lastCmd, apiCalls >>
envAux == << handleFailed, errSeen >>

watcherVars == << isRunning, doneClosed, eventsClosed, fwWatcher, handle, evq, errq, wg >>
histVars == << received, emitted, attempts, oplog, results, destBefore >>

IdleLoop == [pc |-> "none", tbl |-> 0, path |-> <<>>, data1 |-> NoRows, data2 |-> NoRows]
IdleWg == [pc |-> "none", ev |-> <<>>, h |-> 0]

Init ==
    /\ hpc = "init"
    /\ service = FALSE
    /\ ctxDone = FALSE
    /\ isRunning = FALSE
    /\ doneClosed = FALSE
    /\ eventsClosed = FALSE
    /\ fwWatcher = 0
    /\ handle = [h \in ProcIds |-> "none"]
    /\ evq = [h \in ProcIds |-> <<>>]
    /\ errq = [h \in ProcIds |-> 0]
    /\ wg = [g \in ProcIds |-> IdleWg]
    /\ loop = [l \in ProcIds |-> IdleLoop]
    /\ dest = [t \in Tables |-> RowsOld]
    /\ nEvents = 0
    /\ received = <<>>
    /\ emitted = <<>>
    /\ attempts = <<>>
    /\ oplog = <<>>
    /\ results = <<>>
    /\ destBefore = [t \in Tables |-> RowsOld]
    /\ stopReturned = FALSE
    /\ panicked = FALSE
    /\ lastCall = "none"
    /\ stopCalls = 0
    /\ svcState = "none"
    /\ lastCmd = "none"
    /\ apiCalls = 0
    /\ handleFailed = FALSE
    /\ errSeen = FALSE

(***************************************************************************)
(* FSNotifyWatcher.                                                        *)
(***************************************************************************)
\* the identity fsnotify.NewWatcher() gives the next handle
NewHandle == CHOOSE h \in ProcIds : handle[h] = "none" /\ \A k \in ProcIds : handle[k] = "none" => h <= k

\* the identity of the next reception goroutine
NewWg == CHOOSE g \in ProcIds : wg[g].pc = "none" /\ \A k \in ProcIds : wg[k].pc = "none" => g <= k

StartOutcomes == {"ok", "newfail", "addfail"}

\* faulty variant: the handle is not closed when Add fails
AddFailed_Leaked == "open"

\* the state of the new handle when fw.watcher.Add(dir) fails: fw.watcher.Close()
AddFailed == "closed"

\* FSNotifyWatcher.Start, the whole call under fw.mu
FW_Start(out) ==
    /\ lastCall' = IF out = "ok" THEN "start" ELSE lastCall
    /\ UNCHANGED << panicked, stopCalls >>
    /\ IF isRunning
       THEN /\ out = "ok"
            /\ UNCHANGED watcherVars
       ELSE /\ \E h \in ProcIds : handle[h] = "none"
            /\ \E g \in ProcIds : wg[g].pc = "none"
            /\ CASE out = "newfail" -> UNCHANGED watcherVars
                 [] out = "addfail" ->
                       /\ fwWatcher' = NewHandle
                       /\ handle' = [handle EXCEPT ![NewHandle] = AddFailed]
                       /\ UNCHANGED << isRunning, doneClosed, eventsClosed, evq, errq, wg >>
                 [] out = "ok" ->
                       /\ fwWatcher' = NewHandle
                       /\ handle' = [handle EXCEPT ![NewHandle] = "open"]
                       /\ isRunning' = TRUE
                       /\ wg' = [wg EXCEPT ![NewWg] = [pc |-> "select", ev |-> <<>>, h |-> NewHandle]]
                       /\ UNCHANGED << doneClosed, eventsClosed, evq, errq >>

\* faulty variant: Stop signals whether or not the watcher runs
StopIsNoOp_Never == FALSE

\* FSNotifyWatcher.Stop: if !fw.isRunning { return nil }
StopIsNoOp == ~isRunning

\* FSNotifyWatcher.Stop, the whole call under fw.mu
FW_Stop ==
    /\ stopCalls' = stopCalls + 1
    /\ IF StopIsNoOp
       THEN /\ lastCall' = "stop"
            /\ UNCHANGED watcherVars
            /\ UNCHANGED panicked
       ELSE IF doneClosed
       THEN \* close(fw.done) of a closed channel panics
            /\ panicked' = TRUE
            /\ UNCHANGED watcherVars
            /\ UNCHANGED lastCall
       ELSE /\ doneClosed' = TRUE
            /\ isRunning' = FALSE
            /\ lastCall' = "stop"
            /\ UNCHANGED << eventsClosed, fwWatcher, handle, evq, errq, wg, panicked >>

\* the reception goroutine returns: the deferred fw.watcher.Close(), then close(fw.events)
\* close(fw.events) of a closed channel panics, and so does the send of another
\* goroutine that is blocked on fw.events when it is closed
WgReturn(g) ==
    /\ handle' = [handle EXCEPT ![wg[g].h] = "closed"]
    /\ evq' = [evq EXCEPT ![wg[g].h] = <<>>]
    /\ errq' = [errq EXCEPT ![wg[g].h] = 0]
    /\ eventsClosed' = TRUE
    /\ panicked' = (eventsClosed \/ \E k \in ProcIds \ {g} : wg[k].pc = "send")
    /\ wg' = [wg EXCEPT ![g] = [pc |-> "exited", ev |-> <<>>, h |-> wg[g].h]]
    /\ UNCHANGED << isRunning, doneClosed, fwWatcher, lastCall, stopCalls >>

\* the goroutine is blocked in its select
AtSelect(g) == wg[g].pc = "select"

\* case <-ctx.Done()
WgCtxDone(g) ==
    /\ AtSelect(g)
    /\ ctxDone
    /\ WgReturn(g)
    /\ UNCHANGED << hpc, service, ctxDone, loop, dest, nEvents, histVars, stopReturned, hostAux, envAux >>

\* case <-fw.done
WgDone(g) ==
    /\ AtSelect(g)
    /\ doneClosed
    /\ WgReturn(g)
    /\ UNCHANGED << hpc, service, ctxDone, loop, dest, nEvents, histVars, stopReturned, hostAux, envAux >>

\* the filter on the event's base name
IsTarget(e) == Base(e.name) = filename

\* faulty variant: the kind of the event is not looked at
IsModification_AnyKind(e) == e.op > 0

\* the filter on the event's kind
IsModification(e) == HasOp(e.op, OpWrite) \/ HasOp(e.op, OpCreate)

\* the handles a read of the field fw.watcher by goroutine g may yield: the
\* goroutine reads the field without fw.mu, so after a later Start has stored a
\* new handle it sees the handle it was started with or the new one
HandlesSeen(g) == {wg[g].h, fwWatcher} \ {0}

\* case event, ok := <-fw.watcher.Events, ok
WgEvent(g) ==
    /\ AtSelect(g)
    /\ \E h \in HandlesSeen(g) :
         /\ handle[h] = "open"
         /\ evq[h] # <<>>
         /\ LET e == Head(evq[h]) IN
              /\ evq' = [evq EXCEPT ![h] = Tail(@)]
              /\ received' = Append(received, e)
              /\ wg' = IF IsTarget(e) /\ IsModification(e)
                       THEN [wg EXCEPT ![g].pc = "send", ![g].ev = e.name]
                       ELSE wg
              \* fw.events <- event.Name on a closed channel panics
              /\ panicked' = (IsTarget(e) /\ IsModification(e) /\ eventsClosed)
    /\ UNCHANGED << hpc, service, ctxDone, isRunning, doneClosed, eventsClosed, fwWatcher,
                    handle, errq, loop, dest, nEvents,
                    emitted, attempts, oplog, results, destBefore, stopReturned,
                    lastCall, stopCalls, hostAux, envAux >>

\* faulty variant: an error of the backend ends the goroutine
OnWatchError_Fatal(g) ==
    /\ handle' = [handle EXCEPT ![wg[g].h] = "closed"]
    /\ eventsClosed' = TRUE
    /\ wg' = [wg EXCEPT ![g].pc = "exited"]
    /\ UNCHANGED panicked

\* the error is logged and the for loop goes on
OnWatchError(g) == UNCHANGED << handle, eventsClosed, wg, panicked >>

\* case err, ok := <-fw.watcher.Errors, ok
WgError(g) ==
    /\ AtSelect(g)
    /\ \E h \in HandlesSeen(g) :
         /\ handle[h] = "open"
         /\ errq[h] > 0
         /\ errq' = [errq EXCEPT ![h] = @ - 1]
    /\ OnWatchError(g)
    /\ errSeen' = TRUE
    /\ UNCHANGED << hpc, service, ctxDone, isRunning, doneClosed, fwWatcher,
                    evq, loop, dest, nEvents, histVars, stopReturned,
                    lastCall, stopCalls, hostAux, handleFailed >>

\* watcher.Events or watcher.Errors is closed: !ok
WgHandleClosed(g) ==
    /\ AtSelect(g)
    /\ \E h \in HandlesSeen(g) : handle[h] = "closed"
    /\ WgReturn(g)
    /\ UNCHANGED << hpc, service, ctxDone, loop, dest, nEvents, histVars, stopReturned, hostAux, envAux >>

(***************************************************************************)
(* The filesystem-watch backend.                                           *)
(***************************************************************************)
\* the OS reports a filesystem event to every open handle
FsEvent(e) ==
    /\ nEvents < MaxEvents
    /\ \E h \in ProcIds : handle[h] = "open"
    /\ evq' = [h \in ProcIds |-> IF handle[h] = "open" THEN Append(evq[h], e) ELSE evq[h]]
    /\ nEvents' = nEvents + 1
    /\ UNCHANGED << hpc, service, ctxDone, isRunning, doneClosed, eventsClosed, fwWatcher,
                    handle, errq, wg, loop, dest, histVars, stopReturned, fwAux, hostAux, envAux >>

\* the backend reports an internal error and stays open
FsError(h) ==
    /\ handle[h] = "open"
    /\ errq[h] < MaxErrors
    /\ errq' = [errq EXCEPT ![h] = @ + 1]
    /\ UNCHANGED << hpc, service, ctxDone, isRunning, doneClosed, eventsClosed, fwWatcher,
                    handle, evq, wg, loop, dest, nEvents, histVars, stopReturned, fwAux, hostAux, envAux >>

\* the handle closes unexpectedly: its Events and Errors streams end
HandleFail(h) ==
    /\ handle[h] = "open"
    /\ handle' = [handle EXCEPT ![h] = "closed"]
    /\ evq' = [evq EXCEPT ![h] = <<>>]
    /\ errq' = [errq EXCEPT ![h] = 0]
    /\ handleFailed' = TRUE
    /\ UNCHANGED << hpc, service, ctxDone, isRunning, doneClosed, eventsClosed, fwWatcher,
                    wg, loop, dest, nEvents, histVars, stopReturned, fwAux, hostAux, errSeen >>

(***************************************************************************)
(* GoogleSheetsClient and ExcelizeReader, as processFileChange calls them.  *)
(***************************************************************************)
\* valueRange.Values: the cell-by-cell copy of data
ToValueRange(data) == [i \in 1..Len(data) |-> [j \in 1..Len(data[i]) |-> data[i][j]]]

Op(kind, t, ok, rows) == [op |-> kind, t |-> t, ok |-> ok, rows |-> rows]

\* faulty variant: only the base names are compared
SamePath_BaseOnly(p) == Base(p) = Base(LiveSplitExportPath)

\* processFileChange only handles the watched file
SamePath(p) == Clean(p) = Clean(LiveSplitExportPath)

\* faulty variant: the two tables' rows are exchanged
DataFor_Swapped(l, t) == IF t = 1 THEN loop[l].data2 ELSE loop[l].data1

\* the rows UpdateSheet is given for table t
DataFor(l, t) == IF t = 1 THEN loop[l].data1 ELSE loop[l].data2

\* processFileChange returns (nil or an error); the for loop goes back to its select
Return(l, r) ==
    /\ loop' = [loop EXCEPT ![l] = [IdleLoop EXCEPT !.pc = "wait"]]
    /\ results' = Append(results, r)

\* faulty variant: the read error is dropped and processing goes on with no rows
ReadFailure_Ignored(l, t) ==
    /\ loop' = [loop EXCEPT ![l].pc = IF t = 1 THEN "read2" ELSE "get", ![l].tbl = IF t = 1 THEN 0 ELSE 1]
    /\ UNCHANGED results

\* processFileChange when ReadSheet of table t fails: return the error
ReadFailure(l, t) == Return(l, IF t = 1 THEN "read1fail" ELSE "read2fail")

\* a processFileChange call of loop l has begun and has not returned
InFlight(l) == loop[l].pc \in {"pfc", "read1", "read2", "get", "clear", "write"}

(***************************************************************************)
(* The processing loop of RunUpdater.Start.                                *)
(***************************************************************************)
\* the loop is blocked in its select
AtWait(l) == loop[l].pc = "wait"

\* case <-ctx.Done()
LoopCtxDone(l) ==
    /\ AtWait(l)
    /\ ctxDone
    /\ loop' = [loop EXCEPT ![l].pc = "exited"]
    /\ UNCHANGED << hpc, service, ctxDone, watcherVars, dest, nEvents, histVars, stopReturned, fwAux, hostAux, envAux >>

\* case changedFile, ok := <-changesCh, !ok
LoopChanClosed(l) ==
    /\ AtWait(l)
    /\ eventsClosed
    /\ loop' = [loop EXCEPT ![l].pc = "exited"]
    /\ UNCHANGED << hpc, service, ctxDone, watcherVars, dest, nEvents, histVars, stopReturned, fwAux, hostAux, envAux >>

\* case changedFile, ok := <-changesCh, ok: the rendezvous with the send of
\* goroutine g, then the call of processFileChange
LoopRecv(l, g) ==
    /\ AtWait(l)
    /\ ~eventsClosed
    /\ wg[g].pc = "send"
    /\ wg' = [wg EXCEPT ![g].pc = "select", ![g].ev = <<>>]
    /\ loop' = [loop EXCEPT ![l].pc = "pfc", ![l].path = wg[g].ev]
    /\ emitted' = Append(emitted, wg[g].ev)
    /\ attempts' = Append(attempts, wg[g].ev)
    /\ oplog' = <<>>
    /\ destBefore' = dest
    /\ UNCHANGED << hpc, service, ctxDone, isRunning, doneClosed, eventsClosed, fwWatcher,
                    handle, evq, errq, dest, nEvents, received, results, stopReturned, fwAux, hostAux, envAux >>

\* processFileChange: the path guard
PathCheck(l) ==
    /\ loop[l].pc = "pfc"
    /\ IF SamePath(loop[l].path)
       THEN /\ loop' = [loop EXCEPT ![l].pc = "read1"]
            /\ UNCHANGED results
       ELSE Return(l, "skipped")
    /\ UNCHANGED << hpc, service, ctxDone, watcherVars, dest, nEvents,
                    received, emitted, attempts, oplog, destBefore, stopReturned, fwAux, hostAux, envAux >>

\* processFileChange: ReadSheet of the first table
Read1(l) ==
    /\ loop[l].pc = "read1"
    /\ \/ \E rows \in RowSets :
            /\ loop' = [loop EXCEPT ![l].pc = "read2", ![l].data1 = rows]
            /\ oplog' = Append(oplog, Op("read", 1, TRUE, rows))
            /\ UNCHANGED results
       \/ /\ ReadFailure(l, 1)
          /\ oplog' = Append(oplog, Op("read", 1, FALSE, NoRows))
    /\ UNCHANGED << hpc, service, ctxDone, watcherVars, dest, nEvents,
                    received, emitted, attempts, destBefore, stopReturned, fwAux, hostAux, envAux >>

\* processFileChange: ReadSheet of the second table
Read2(l) ==
    /\ loop[l].pc = "read2"
    /\ \/ \E rows \in RowSets :
            /\ loop' = [loop EXCEPT ![l].pc = "get", ![l].tbl = 1, ![l].data2 = rows]
            /\ oplog' = Append(oplog, Op("read", 2, TRUE, rows))
            /\ UNCHANGED results
       \/ /\ ReadFailure(l, 2)
          /\ oplog' = Append(oplog, Op("read", 2, FALSE, NoRows))
    /\ UNCHANGED << hpc, service, ctxDone, watcherVars, dest, nEvents,
                    received, emitted, attempts, destBefore, stopReturned, fwAux, hostAux, envAux >>

\* the error processFileChange returns when UpdateSheet of table t fails
UpdFail(t) == IF t = 1 THEN "upd1fail" ELSE "upd2fail"

\* faulty variant: after a failed replace of table 1 the call goes on with table 2
UpdateFailure_GoesOn(l, t) ==
    IF t = 1
    THEN /\ loop' = [loop EXCEPT ![l].pc = "get", ![l].tbl = 2]
         /\ UNCHANGED results
    ELSE Return(l, UpdFail(t))

\* processFileChange when UpdateSheet of table t fails: return the error
UpdateFailure(l, t) == Return(l, UpdFail(t))

\* UpdateSheet: the service check and Spreadsheets.Get, looking the sheet up by name
SheetGet(l) ==
    /\ loop[l].pc = "get"
    /\ IF ~service
       THEN /\ UpdateFailure(l, loop[l].tbl)
            /\ UNCHANGED oplog
       ELSE \/ /\ loop' = [loop EXCEPT ![l].pc = "clear"]
               /\ oplog' = Append(oplog, Op("get", loop[l].tbl, TRUE, NoRows))
               /\ UNCHANGED results
            \/ /\ UpdateFailure(l, loop[l].tbl)
               /\ oplog' = Append(oplog, Op("get", loop[l].tbl, FALSE, NoRows))
    /\ UNCHANGED << hpc, service, ctxDone, watcherVars, dest, nEvents,
                    received, emitted, attempts, destBefore, stopReturned, fwAux, hostAux, envAux >>

\* UpdateSheet: Spreadsheets.Values.Clear
SheetClear(l) ==
    /\ loop[l].pc = "clear"
    /\ \/ /\ loop' = [loop EXCEPT ![l].pc = "write"]
          /\ dest' = [dest EXCEPT ![loop[l].tbl] = NoRows]
          /\ oplog' = Append(oplog, Op("clear", loop[l].tbl, TRUE, NoRows))
          /\ UNCHANGED results
       \/ /\ UpdateFailure(l, loop[l].tbl)
          /\ oplog' = Append(oplog, Op("clear", loop[l].tbl, FALSE, NoRows))
          /\ UNCHANGED dest
    /\ UNCHANGED << hpc, service, ctxDone, watcherVars, nEvents,
                    received, emitted, attempts, destBefore, stopReturned, fwAux, hostAux, envAux >>

\* UpdateSheet: Spreadsheets.Values.Update; then the next table, or the return
SheetWrite(l) ==
    /\ loop[l].pc = "write"
    /\ LET t == loop[l].tbl
           v == ToValueRange(DataFor(l, t)) IN
       \/ /\ dest' = [dest EXCEPT ![t] = v]
          /\ oplog' = Append(oplog, Op("write", t, TRUE, v))
          /\ IF t = 1
             THEN /\ loop' = [loop EXCEPT ![l].pc = "get", ![l].tbl = 2]
                  /\ UNCHANGED results
             ELSE Return(l, "ok")
       \/ /\ UpdateFailure(l, t)
          /\ oplog' = Append(oplog, Op("write", t, FALSE, v))
          /\ UNCHANGED dest
    /\ UNCHANGED << hpc, service, ctxDone, watcherVars, nEvents,
                    received, emitted, attempts, destBefore, stopReturned, fwAux, hostAux, envAux >>

(***************************************************************************)
(* RunUpdater.Start and Stop, called by the host (main, or the service     *)
(* handler's Execute): Start once, then on the stop signal cancel() and    *)
(* Stop().                                                                 *)
(***************************************************************************)
\* faulty variant: Running is reported whatever Start returned
Reported_Always(cur, err) == "Running"

\* Execute after s.updater.Start returned, cur being the state reported so
\* far: return true, 1 on an error, else changes <- Running
Reported(cur, err) == IF err THEN cur ELSE "Running"

\* faulty variant: the error of Connect is not checked
AfterConnect_ErrIgnored(ok) == "startw"

\* RunUpdater.Start after Connect returned: go on, or return the error
AfterConnect(ok) == IF ok THEN "startw" ELSE "connectfailed"

\* RunUpdater.Start: sheetsClient.Connect
RU_Connect(ok) ==
    /\ hpc = "init"
    /\ service' = ok
    /\ hpc' = AfterConnect(ok)
    /\ svcState' = IF AfterConnect(ok) = "connectfailed"
                   THEN Reported("StartPending", TRUE)
                   ELSE "StartPending"
    /\ UNCHANGED << ctxDone, watcherVars, loop, dest, nEvents, histVars, stopReturned,
                    fwAux, lastCmd, apiCalls, envAux >>

\* RunUpdater.Start: fileWatcher.Start
RU_StartWatcher(out) ==
    /\ hpc = "startw"
    /\ FW_Start(out)
    /\ hpc' = IF out = "ok" THEN "launch" ELSE "watchfailed"
    /\ svcState' = IF out = "ok" THEN svcState ELSE Reported(svcState, TRUE)
    /\ UNCHANGED << service, ctxDone, loop, dest, nEvents, histVars, stopReturned,
                    lastCmd, apiCalls, envAux >>

\* faulty variant: a pool of loop goroutines reads the channel
Launched_Pool == { l \in ProcIds : loop[l].pc = "none" }

\* the goroutines the go statement of RunUpdater.Start launches
Launched == { CHOOSE l \in ProcIds : loop[l].pc = "none" /\ \A k \in ProcIds : loop[k].pc = "none" => l <= k }

\* RunUpdater.Start: go func() { for { select ... } }, return nil
RU_LaunchLoop ==
    /\ hpc = "launch"
    /\ loop' = [l \in ProcIds |-> IF l \in Launched THEN [loop[l] EXCEPT !.pc = "wait"] ELSE loop[l]]
    /\ hpc' = "running"
    /\ svcState' = Reported(svcState, FALSE)
    /\ UNCHANGED << service, ctxDone, watcherVars, dest, nEvents, histVars, stopReturned,
                    fwAux, lastCmd, apiCalls, envAux >>

\* the control commands of the service manager; CurrentStatus is the state the
\* handler reported last
Commands == {"Interrogate", "Other"}

\* c.CurrentStatus: the svc package fills it with the status it received last
\* on changes
CurrentStatus == svcState

\* Execute: case svc.Interrogate: changes <- c.CurrentStatus; default: log
HostCommand(c) ==
    /\ hpc = "running"
    /\ lastCmd' = c
    /\ svcState' = IF c = "Interrogate" THEN CurrentStatus ELSE svcState
    /\ UNCHANGED << hpc, service, ctxDone, watcherVars, loop, dest, nEvents, histVars,
                    stopReturned, fwAux, apiCalls, envAux >>

\* the stop signal: the host's cancel(); the service handler reports StopPending
\* before it
HostCancel ==
    /\ hpc = "running"
    /\ ctxDone' = TRUE
    /\ hpc' = "cancelled"
    /\ svcState' = "StopPending"
    /\ lastCmd' = "Stop"
    /\ UNCHANGED << service, watcherVars, loop, dest, nEvents, histVars, stopReturned,
                    fwAux, apiCalls, envAux >>

\* the host's updater.Stop(): RunUpdater.Stop calls fileWatcher.Stop, which
\* returns without waiting for the reception goroutine
HostStop ==
    /\ hpc = "cancelled"
    /\ FW_Stop
    /\ stopReturned' = (stopReturned \/ ~panicked')
    /\ hpc' = IF panicked' THEN hpc ELSE "stopped"
    /\ UNCHANGED << service, ctxDone, loop, dest, nEvents, histVars, hostAux, envAux >>

(***************************************************************************)
(* Specifications.                                                         *)
(***************************************************************************)
WatcherStep(g) ==
    \/ WgCtxDone(g)
    \/ WgDone(g)
    \/ WgEvent(g)
    \/ WgError(g)
    \/ WgHandleClosed(g)

ProcessStep(l) ==
    \/ PathCheck(l)
    \/ Read1(l)
    \/ Read2(l)
    \/ SheetGet(l)
    \/ SheetClear(l)
    \/ SheetWrite(l)

Next ==
    \/ \E c \in Commands : HostCommand(c)
    \/ \E ok \in BOOLEAN : RU_Connect(ok)
    \/ \E out \in StartOutcomes : RU_StartWatcher(out)
    \/ RU_LaunchLoop
    \/ HostCancel
    \/ HostStop
    \/ \E e \in FsEvents : FsEvent(e)
    \/ \E h \in ProcIds : FsError(h)
    \/ \E h \in ProcIds : HandleFail(h)
    \/ \E g \in ProcIds : WatcherStep(g)
    \/ \E l \in ProcIds : LoopCtxDone(l)
    \/ \E l \in ProcIds : LoopChanClosed(l)
    \/ \E l \in ProcIds, g \in ProcIds : LoopRecv(l, g)
    \/ \E l \in ProcIds : ProcessStep(l)

Spec == Init /\ [][Next]_vars

\* a blocked select of the loop: the three cases of RunUpdater.Start's select
LoopSelect(l) ==
    \/ LoopCtxDone(l)
    \/ LoopChanClosed(l)
    \/ \E g \in ProcIds : LoopRecv(l, g)

\* The Go scheduler runs every goroutine that can take a step, the calls made by
\* processFileChange return, and a select whose case is ready again and again
\* eventually takes it (the choice among ready cases is uniformly random).  The
\* host and the filesystem are under no obligation to act.
Fairness ==
    /\ \A g \in ProcIds : WF_vars(WatcherStep(g))
    /\ \A g \in ProcIds : SF_vars(WgCtxDone(g)) /\ SF_vars(WgDone(g))
    /\ \A l \in ProcIds : WF_vars(LoopSelect(l)) /\ SF_vars(LoopCtxDone(l))
    /\ \A l \in ProcIds : WF_vars(ProcessStep(l))

FairSpec == Spec /\ Fairness

(***************************************************************************)
(* Any sequence of calls.  main and Execute call Start once and Stop once, *)
(* after cancel(); RunUpdater and FSNotifyWatcher are written to be called *)
(* in any order (Start returns fw.events when the watcher runs, Stop       *)
(* returns nil when it does not), so a caller may also call Stop before    *)
(* Start or twice, and Start again at any time.                            *)
(***************************************************************************)
\* the caller is between two calls
Idle == hpc \in {"init", "running", "cancelled", "stopped", "connectfailed", "watchfailed"}

\* RunUpdater.Stop called at any time between two calls
ApiStop ==
    /\ Idle
    /\ apiCalls < MaxCalls
    /\ apiCalls' = apiCalls + 1
    /\ FW_Stop
    /\ stopReturned' = (stopReturned \/ ~panicked')
    /\ hpc' = IF hpc = "init" \/ panicked' THEN hpc ELSE "stopped"
    /\ UNCHANGED << service, ctxDone, loop, dest, nEvents, histVars, svcState, lastCmd, envAux >>

\* RunUpdater.Start called again: the call begins with Connect
ApiStart ==
    /\ Idle /\ hpc # "init"
    /\ apiCalls < MaxCalls
    /\ \E l \in ProcIds : loop[l].pc = "none"
    /\ apiCalls' = apiCalls + 1
    /\ hpc' = "init"
    /\ UNCHANGED << service, ctxDone, watcherVars, loop, dest, nEvents, histVars, stopReturned,
                    fwAux, svcState, lastCmd, envAux >>

\* the events delivered while the calls are explored: those that pass the
\* filter of the reception goroutine, are notified, and end at the path check
\* of processFileChange (the calls that reach the reader and the sheets are
\* explored by Spec)
ApiEvents == { e \in FsEvents : IsTarget(e) /\ IsModification(e) /\ ~SamePath(e.name) }

\* the calls in any order, the goroutines and the events of the watched
\* directory; a runtime panic ends the process
NextAPI ==
    \/ ~panicked /\ ApiStop
    \/ ~panicked /\ ApiStart
    \/ ~panicked /\ \E ok \in BOOLEAN : RU_Connect(ok)
    \/ ~panicked /\ \E out \in StartOutcomes : RU_StartWatcher(out)
    \/ ~panicked /\ RU_LaunchLoop
    \/ ~panicked /\ HostCancel
    \/ ~panicked /\ HostStop
    \/ ~panicked /\ \E e \in ApiEvents : FsEvent(e)
    \/ ~panicked /\ \E g \in ProcIds : WgCtxDone(g) \/ WgDone(g) \/ WgEvent(g) \/ WgHandleClosed(g)
    \/ ~panicked /\ \E l \in ProcIds : LoopCtxDone(l)
    \/ ~panicked /\ \E l \in ProcIds : LoopChanClosed(l)
    \/ ~panicked /\ \E l \in ProcIds, g \in ProcIds : LoopRecv(l, g)
    \/ ~panicked /\ \E l \in ProcIds : PathCheck(l)

SpecAPI == Init /\ [][NextAPI]_vars

(***************************************************************************)
(* Vocabulary of the properties.                                           *)
(***************************************************************************)
\* every processFileChange call that began has returned
Returned == attempts # <<>> /\ Len(results) = Len(attempts)

LastPath == attempts[Len(attempts)]
LastResult == results[Len(results)]

\* the calls of kind k on table t made for the notification started last
Calls(k, t) == { i \in 1..Len(oplog) : oplog[i].op = k /\ oplog[i].t = t }

\* the destination calls made for the notification started last
DestCalls == { i \in 1..Len(oplog) : oplog[i].op \in {"get", "clear", "write"} }

\* the names held by reception goroutines blocked in their send
RECURSIVE PendingFrom(_)
PendingFrom(g) ==
    IF g > MaxProcs THEN <<>>
    ELSE (IF wg[g].pc = "send" THEN <<wg[g].ev>> ELSE <<>>) \o PendingFrom(g + 1)

\* no stop, no cancellation, the processing loop launched, the watch handle open
Running ==
    /\ hpc = "running"
    /\ ~ctxDone
    /\ ~stopReturned
    /\ fwWatcher # 0
    /\ handle[fwWatcher] = "open"

(***************************************************************************)
(* C1: at most one execution of processFileChange is in flight in every    *)
(* reachable state: the loop begins no processing while an earlier one has *)
(* not returned, so no two UpdateSheet calls overlap.                      *)
(***************************************************************************)
C1_OneInFlight == Cardinality({ l \in ProcIds : InFlight(l) }) <= 1

\* a call is in flight inside UpdateSheet while the next notification waits in the send
C1_Witness ==
    \E l \in ProcIds, g \in ProcIds :
        /\ loop[l].pc \in {"get", "clear", "write"}
        /\ wg[g].pc = "send"

(***************************************************************************)
(* C2: while the system is running, the processFileChange calls are        *)
(* exactly the received events whose base name is the target's and whose   *)
(* kind contains Write or Create, one call per event, in the order of      *)
(* reception (the last one possibly still held in the send); every other   *)
(* event yields none.                                                      *)
(***************************************************************************)
C2_IsChange(e) ==
    /\ e.name[Len(e.name)] = LiveSplitExportPath[Len(LiveSplitExportPath)]
    /\ \E k \in {OpWrite, OpCreate} : HasOp(e.op, k)

C2_Names(es) == [i \in 1..Len(es) |-> es[i].name]

C2_EventOrder ==
    Running =>
        /\ emitted = attempts
        /\ attempts \o PendingFrom(1) = C2_Names(SelectSeq(received, C2_IsChange))

\* two events received while running: one ignored, one processed
C2_Witness ==
    /\ Running
    /\ Len(received) = 2
    /\ Len(attempts) = 1
    /\ PendingFrom(1) = <<>>

(***************************************************************************)
(* C3: a notification for the target path whose reads and destination      *)
(* calls all succeed makes, in this order and once each: read 1, read 2,   *)
(* clear 1, write 1, clear 2, write 2; each table is written the rows read *)
(* for it.                                                                 *)
(***************************************************************************)
C3_Sequence ==
    LET steps == SelectSeq(oplog, LAMBDA o : o.op # "get")
        kinds == [i \in 1..Len(steps) |-> <<steps[i].op, steps[i].t>>]
    IN  ( /\ Returned
          /\ Clean(LastPath) = Clean(LiveSplitExportPath)
          /\ \A i \in 1..Len(oplog) : oplog[i].ok )
        =>
        /\ kinds = << <<"read", 1>>, <<"read", 2>>, <<"clear", 1>>, <<"write", 1>>,
                      <<"clear", 2>>, <<"write", 2>> >>
        /\ steps[4].rows = steps[1].rows
        /\ steps[6].rows = steps[2].rows
        /\ dest[1] = steps[1].rows
        /\ dest[2] = steps[2].rows

\* a notification completed with different rows read for the two tables
C3_Witness ==
    /\ Returned
    /\ LastResult = "ok"
    /\ dest[1] = RowsA
    /\ dest[2] = RowsB

(***************************************************************************)
(* C4: when a table read fails, no destination call is made for that       *)
(* notification, both destination tables are unchanged, and the loop goes  *)
(* back to waiting.                                                        *)
(***************************************************************************)
C4_ReadFailed == \E i \in 1..Len(oplog) : oplog[i].op = "read" /\ ~oplog[i].ok

C4_ReadFailure ==
    /\ [](C4_ReadFailed => (DestCalls = {} /\ dest = destBefore /\ Returned))
    /\ [][\A l \in ProcIds :
            (loop[l].pc \in {"read1", "read2"} /\ C4_ReadFailed') => loop'[l].pc = "wait"]_vars

\* a read failed for the first notification and the second one was processed to the end
C4_Witness ==
    /\ Len(results) = 2
    /\ results[1] \in {"read1fail", "read2fail"}
    /\ results[2] = "ok"

(***************************************************************************)
(* C6: a notification with the target's base name whose normalized path is *)
(* not the target path causes no read and no destination call, and its     *)
(* processing returns nil leaving the destination as it was.               *)
(***************************************************************************)
C6_Foreign(p) ==
    /\ p[Len(p)] = LiveSplitExportPath[Len(LiveSplitExportPath)]
    /\ Clean(p) # Clean(LiveSplitExportPath)

C6_ForeignPathSkipped ==
    (attempts # <<>> /\ C6_Foreign(LastPath)) =>
        /\ oplog = <<>>
        /\ dest = destBefore
        /\ \A l \in ProcIds : loop[l].pc \in {"none", "pfc", "wait", "exited"}
        /\ Returned => LastResult = "skipped"

\* processFileChange returned for a notification of the same base name in another directory
C6_Witness ==
    /\ Returned
    /\ C6_Foreign(LastPath)

(***************************************************************************)
(* C7: the watcher is started and the loop launched only after Connect     *)
(* succeeded; UpdateSheet runs only with a session; when Connect fails,    *)
(* Start returns the error with no watcher started and no loop.            *)
(***************************************************************************)
C7_WatcherStarted ==
    \/ isRunning
    \/ fwWatcher # 0
    \/ \E h \in ProcIds : handle[h] # "none"
    \/ \E g \in ProcIds : wg[g].pc # "none"

C7_LoopExists == \E l \in ProcIds : loop[l].pc # "none"

C7_ConnectFirst ==
    /\ (C7_WatcherStarted \/ C7_LoopExists \/ attempts # <<>>) => service
    /\ ~service => (hpc \in {"init", "connectfailed"} /\ DestCalls = {})
    /\ hpc = "connectfailed" => (~service /\ ~C7_WatcherStarted /\ ~C7_LoopExists)

\* Connect failed and Start returned its error
C7_Witness == hpc = "connectfailed" /\ ~service

(***************************************************************************)
(* C5: when the replace of table 1 succeeds and the replace of table 2     *)
(* fails at any step, destination table 1 holds the newly read rows and    *)
(* destination table 2 holds what it held before the notification; the     *)
(* loop is back in its wait.                                               *)
(***************************************************************************)
C5_Replaced1 == \E i \in Calls("write", 1) : oplog[i].ok

C5_Failed2 == \E i \in DestCalls : oplog[i].t = 2 /\ ~oplog[i].ok

C5_ReplaceAllOrNothing ==
    (C5_Replaced1 /\ C5_Failed2) =>
        /\ Returned
        /\ \A i \in Calls("read", 1) : dest[1] = oplog[i].rows
        /\ dest[2] = destBefore[2]

(***************************************************************************)
(* C8: once the context is cancelled, every reception goroutine eventually *)
(* exits and the watch handle is closed, also when the goroutine is in its *)
(* send and the loop exits without receiving.                              *)
(***************************************************************************)
C8_WatcherReleased ==
    /\ \A g \in ProcIds : wg[g].pc \in {"none", "exited"}
    /\ \A h \in ProcIds : handle[h] # "open"

C8_CancelReleasesWatcher == ctxDone ~> C8_WatcherReleased

(***************************************************************************)
(* C9: once the context is cancelled, the loop begins no new               *)
(* processFileChange call, even when a notification is ready; a call in    *)
(* flight is not aborted: it runs on until it returns.                     *)
(***************************************************************************)
C9_NoNewWorkAfterCancel ==
    /\ [][ctxDone => attempts' = attempts]_vars
    /\ [][\A l \in ProcIds : (ctxDone /\ InFlight(l)) => loop'[l].pc # "exited"]_vars

(***************************************************************************)
(* C10: after FSNotifyWatcher.Stop has returned, no further notification   *)
(* is delivered on the notification channel, and the watch handle is       *)
(* eventually closed.                                                      *)
(***************************************************************************)
C10_SilentAfterStop ==
    /\ [][stopReturned => emitted' = emitted]_vars
    /\ stopReturned ~> (\A h \in ProcIds : handle[h] # "open")

(***************************************************************************)
(* C15: if the replace of table 1 fails, no call is made for table 2 for   *)
(* that notification and table 2 keeps its contents; the error is          *)
(* reported and the loop goes back to its select: a processing failure     *)
(* ends neither the loop nor the reception goroutine, and closes nothing.  *)
(***************************************************************************)
C15_Failed1 == \E i \in DestCalls : oplog[i].t = 1 /\ ~oplog[i].ok

C15_Failure(r) == r \in {"read1fail", "read2fail", "upd1fail", "upd2fail"}

C15_ReplaceFailureAborts ==
    /\ [](C15_Failed1 =>
            /\ \A i \in DestCalls : oplog[i].t = 1
            /\ dest[2] = destBefore[2]
            /\ Returned /\ LastResult = "upd1fail")
    /\ []((Returned /\ LastResult = "upd1fail") =>
            /\ \A i \in DestCalls : oplog[i].t = 1
            /\ dest[2] = destBefore[2])
    /\ [][(Len(results') > Len(results) /\ C15_Failure(results'[Len(results')])) =>
            /\ \E l \in ProcIds : InFlight(l) /\ loop'[l].pc = "wait"
            /\ \A l \in ProcIds : loop'[l].pc # "exited"
            /\ UNCHANGED << wg, handle, eventsClosed, isRunning >>]_vars

\* a failed replace of table 1, then a notification processed to the end
C15_Witness ==
    /\ Len(results) = 2
    /\ results[1] = "upd1fail"
    /\ results[2] = "ok"
    /\ dest[2] = ToValueRange(RowsB) \/ dest[2] = ToValueRange(RowsA)

(***************************************************************************)
(* C17: when the watch cannot be established (NewWatcher or Add fails),    *)
(* FSNotifyWatcher.Start returns an error with the watcher not running: no *)
(* reception goroutine, no open handle, isRunning false; RunUpdater.Start  *)
(* returns the error and launches no processing loop.                      *)
(***************************************************************************)
C17_WatchNotEstablished ==
    hpc = "watchfailed" =>
        /\ ~isRunning
        /\ lastCall # "start"
        /\ \A g \in ProcIds : wg[g].pc = "none"
        /\ \A h \in ProcIds : handle[h] # "open"
        /\ \A l \in ProcIds : loop[l].pc = "none"
        /\ ~eventsClosed /\ ~doneClosed

\* Add failed: the handle was created and is closed again
C17_Witness ==
    /\ hpc = "watchfailed"
    /\ fwWatcher # 0
    /\ handle[fwWatcher] = "closed"

(***************************************************************************)
(* C18: an error of the watch backend with the handle still open does not  *)
(* end the stream: the reception goroutine goes on, fw.events stays open   *)
(* and later events are still notified; fw.events is closed only after     *)
(* the handle's streams closed, a stop or a cancellation.                  *)
(***************************************************************************)
C18_StreamMayEnd == ctxDone \/ doneClosed \/ handleFailed

C18_ErrorsDoNotEndStream ==
    /\ [](eventsClosed => C18_StreamMayEnd)
    /\ []((errSeen /\ ~C18_StreamMayEnd) =>
            /\ \E g \in ProcIds : wg[g].pc \in {"select", "send"}
            /\ \A g \in ProcIds : wg[g].pc # "exited"
            /\ handle[fwWatcher] = "open")
    /\ [][(~errSeen /\ errSeen') => UNCHANGED << wg, eventsClosed, handle, emitted >>]_vars

\* after an error was logged the goroutine received a qualifying event and
\* offers its notification, with no stop, cancellation or handle failure
C18_Witness ==
    /\ errSeen
    /\ ~C18_StreamMayEnd
    /\ \E g \in ProcIds : wg[g].pc = "send"

(***************************************************************************)
(* C19: the states the service handler reports go StartPending, Running,   *)
(* StopPending, and then the handler returns (Stopped).  Running is        *)
(* reported only after RunUpdater.Start returned nil; when Start fails the *)
(* handler returns without reporting Running; Interrogate leaves the state *)
(* as it is; Stop or Shutdown reports StopPending, cancels the context and *)
(* calls RunUpdater.Stop once, and the handler returns; nothing is handled *)
(* after that.                                                             *)
(***************************************************************************)
C19_HandlerReturned == hpc \in {"stopped", "connectfailed", "watchfailed"}

C19_Transitions ==
    { <<"none", "StartPending">>, <<"StartPending", "Running">>, <<"Running", "StopPending">> }

C19_ServiceStates ==
    /\ [](svcState = "Running" =>
            /\ hpc = "running"
            /\ lastCall = "start"
            /\ \E l \in ProcIds : loop[l].pc # "none")
    /\ [](hpc \in {"connectfailed", "watchfailed"} => svcState = "StartPending")
    /\ [](svcState = "StopPending" => ctxDone /\ lastCmd = "Stop")
    /\ [](hpc = "stopped" => svcState = "StopPending" /\ stopCalls = 1)
    /\ [](stopCalls <= 1)
    /\ [][svcState' # svcState => <<svcState, svcState'>> \in C19_Transitions]_vars
    /\ [][(lastCmd' # lastCmd /\ lastCmd' = "Interrogate") =>
            UNCHANGED << svcState, hpc, ctxDone, stopCalls, watcherVars >>]_vars
    /\ [][C19_HandlerReturned => UNCHANGED << hpc, svcState, lastCmd, stopCalls, ctxDone >>]_vars

\* Running was reported, a Stop was handled and the handler returned
C19_Witness ==
    /\ hpc = "stopped"
    /\ svcState = "StopPending"
    /\ lastCmd = "Stop"
    /\ stopCalls = 1
    /\ ctxDone

(***************************************************************************)
(* C13: when the watch handle closes with no stop and no cancellation,     *)
(* fw.events is closed, the processing loop exits, and the host learns of  *)
(* it: it does not stay in its running state.                              *)
(***************************************************************************)
C13_Intended == ctxDone \/ doneClosed

C13_Surfaced ==
    /\ eventsClosed
    /\ \A l \in ProcIds : loop[l].pc \in {"none", "exited"}
    /\ hpc # "running"

C13_HandleCloseSurfaced ==
    (hpc = "running" /\ handleFailed /\ ~C13_Intended) ~> (C13_Intended \/ C13_Surfaced)

(***************************************************************************)
(* C14: after RunUpdater.Stop was called on a started orchestrator the     *)
(* system always reaches Stopped: the processing loop has exited, the      *)
(* reception goroutine has exited and the watch handle is closed, in every *)
(* interleaving with pending notifications.                                *)
(***************************************************************************)
C14_Stopped ==
    /\ \A l \in ProcIds : loop[l].pc \in {"none", "exited"}
    /\ \A g \in ProcIds : wg[g].pc \in {"none", "exited"}
    /\ \A h \in ProcIds : handle[h] # "open"
    /\ eventsClosed

C14_StopReachesStopped == (hpc = "stopped") ~> C14_Stopped

(***************************************************************************)
(* C11: FSNotifyWatcher.Stop is idempotent: called on a watcher that was   *)
(* never started, or again after a Stop, it returns nil, changes no state  *)
(* of the watcher and neither signals nor closes anything again.           *)
(***************************************************************************)
C11_NotRunning == lastCall \in {"none", "stop"}

C11_StopIdempotent ==
    [][(stopCalls' = stopCalls + 1 /\ C11_NotRunning) =>
        /\ UNCHANGED watcherVars
        /\ UNCHANGED << ctxDone, loop >>
        /\ ~panicked'
        /\ lastCall' = "stop"]_vars

\* three calls of Stop and one Start that succeeded: a Stop signalled, and two
\* of the calls followed one another with no Start between them
C11_Witness ==
    /\ stopCalls = 3
    /\ apiCalls = 3
    /\ doneClosed
    /\ lastCall = "stop"
    /\ ~panicked

(***************************************************************************)
(* C12: at every moment at most one reception goroutine and at most one    *)
(* open watch handle exist for the watcher, whatever the calls of Start    *)
(* and Stop.                                                               *)
(***************************************************************************)
C12_AtMostOneWatch ==
    /\ Cardinality({ g \in ProcIds : wg[g].pc \in {"select", "send"} }) <= 1
    /\ Cardinality({ h \in ProcIds : handle[h] = "open" }) <= 1

(***************************************************************************)
(* C16: for any sequence of RunUpdater.Start and Stop calls at most one    *)
(* processing-loop goroutine reading the notification channel exists.      *)
(***************************************************************************)
C16_OneConsumer ==
    Cardinality({ l \in ProcIds : loop[l].pc \notin {"none", "exited"} }) <= 1

(***************************************************************************)
(* C20: for any sequence of Start and Stop calls on one watcher, fw.events *)
(* and fw.done are each closed at most once: no call and no reception      *)
(* goroutine closes a closed channel or sends on a closed channel (each of *)
(* which is a runtime panic).                                              *)
(***************************************************************************)
C20_NoDoubleClose == ~panicked

(***************************************************************************)
(* C21: fw.isRunning agrees with the state of the watcher: when it is true *)
(* and no exit is in progress, a reception goroutine is alive, the watch   *)
(* handle is open and fw.events is open; and a Start that has just         *)
(* returned nil did not return a closed fw.events.                         *)
(***************************************************************************)
C21_Alive(g) == wg[g].pc \in {"select", "send"}

\* a goroutine is still alive although its reason to return is there
C21_ExitInProgress ==
    \E g \in ProcIds :
        /\ C21_Alive(g)
        /\ ctxDone \/ doneClosed \/ handle[wg[g].h] = "closed"

\* the step in which FSNotifyWatcher.Start returns nil
C21_StartReturnsNil == hpc = "startw" /\ hpc' = "launch"

C21_FlagAgrees ==
    /\ []((isRunning /\ ~C21_ExitInProgress) =>
            /\ \E g \in ProcIds : C21_Alive(g)
            /\ fwWatcher # 0 /\ handle[fwWatcher] = "open"
            /\ ~eventsClosed)
    /\ [][C21_StartReturnsNil => ~eventsClosed']_vars

====
